---- MODULE Spec2Model ----
(***************************************************************************)
(* State-machine model of MGS_I_Base_v2.0.py: a population of agents on a  *)
(* ROWS x COLS lattice forms groups by proximity, scores a public-goods     *)
(* payoff, and relocates or flips policy when dissatisfied.                 *)
(*                                                                          *)
(* Reals of the source are exact rationals [num, den] here.  The random     *)
(* calls of the source are nondeterministic choices.  The lattice, the tick *)
(* budget and the population are scaled down from the source's values       *)
(* (22 x 22, 200 ticks, 338 agents) so that the state space is finite and   *)
(* small; the configuration of a run (population, initial prosocial         *)
(* fraction, tick budget) is drawn in Init.  Spec explores every            *)
(* population up to MaxPop plus a full and an over-full lattice, with a     *)
(* budget of TICK_MAX; SpecCrowd explores the one population MaxPop + 1,    *)
(* the largest setup can place on this lattice, with a budget one less.     *)
(***************************************************************************)
EXTENDS Integers, Sequences, FiniteSets, TLC

\* ---------------------------------------------------------------- bounds
\* Lattice size (source: ROWS, COLS = 22, 22), scaled down.
ROWS == 2
COLS == 4
\* Tick budget (source: TICK_MAX = 200), scaled down.
TICK_MAX == 2
\* Largest population for which the tick loop is explored.
MaxPop == 2

\* ------------------------------------------------------------- rationals
Rat(n, d) == [num |-> n, den |-> d]
RatLess(a, b) == a.num * b.den < b.num * a.den
RatEq(a, b) == a.num * b.den = b.num * a.den

\* ------------------------------------------------------------ parameters
PRESSURE == Rat(106, 100)
SYNERGY == Rat(24, 10)
\* Values of INITIAL_PROSOCIAL_FRACTION explored (source: .1).
Fractions == {Rat(1, 10), Rat(1, 2), Rat(1, 1)}
\* population = int(DENSITY * COLS * ROWS): the values a density can produce
\* that the model explores, including a full and an over-full lattice.
Populations == (0..MaxPop) \cup {ROWS * COLS, ROWS * COLS + 1}

Cells == (0..(ROWS - 1)) \X (0..(COLS - 1))
\* The cells setup can draw: randrange(ROWS - 1), randrange(COLS - 1).
SetupCells == (0..(ROWS - 2)) \X (0..(COLS - 2))

VARIABLES pc, population, initial_prosocial_fraction, tick_max, world,
          agents, spot, tick, time, prosocial_fraction, agents_moving, agents_switching,
          unsatisfied, available_spots, moving_idx

vars == <<pc, population, initial_prosocial_fraction, tick_max, world,
          agents, spot, tick, time, prosocial_fraction, agents_moving, agents_switching,
          unsatisfied, available_spots, moving_idx>>

\* The configuration of the run, and setup's local spot, gone once setup returns.
config == <<population, initial_prosocial_fraction, tick_max, spot>>
locals == <<agents_moving, agents_switching, unsatisfied, available_spots, moving_idx>>
series == <<time, prosocial_fraction>>

\* ----------------------------------------------------------------- Agent
Agent(agent_id, spot_loc, agent_policy) ==
    [id |-> agent_id, loc |-> spot_loc, policy |-> agent_policy,
     group |-> <<>>, score |-> Rat(0, 1)]

RECURSIVE SumPolicy(_, _)
SumPolicy(ags, group) ==
    IF group = <<>> THEN 0
    ELSE ags[Head(group)].policy + SumPolicy(ags, Tail(group))

\* update_score with the agent's own policy left out of the contribution.
update_score_noself(ags, a) ==
    LET contribution == SumPolicy(ags, Tail(ags[a].group))
        group_size == Len(ags[a].group)
    IN IF group_size > 1
       THEN Rat((1 - ags[a].policy) * SYNERGY.den * group_size
                    + SYNERGY.num * contribution,
                SYNERGY.den * group_size)
       ELSE Rat(1, 1)

\* Agent.update_score: the score of agent a given the agent list ags.
update_score(ags, a) ==
    LET contribution == SumPolicy(ags, ags[a].group)
        group_size == Len(ags[a].group)
    IN IF group_size > 1
       THEN Rat((1 - ags[a].policy) * SYNERGY.den * group_size
                    + SYNERGY.num * contribution,
                SYNERGY.den * group_size)
       ELSE Rat(1, 1)

\* Line 95 without the reduction modulo 2.
change_policy_nomod(policy) == policy + 1

\* Line 95: self.policy = (self.policy + 1) % 2.
change_policy(policy) == (policy + 1) % 2

\* ---------------------------------------------------------------- helpers
\* count_agents with the comparison of line 128 negated.
RECURSIVE count_agents_other(_, _)
count_agents_other(value, agentset) ==
    IF agentset = <<>> THEN 0
    ELSE (IF value # Head(agentset).policy THEN 1 ELSE 0)
             + count_agents_other(value, Tail(agentset))

RECURSIVE count_agents(_, _)
count_agents(value, agentset) ==
    IF agentset = <<>> THEN 0
    ELSE (IF value = Head(agentset).policy THEN 1 ELSE 0)
             + count_agents(value, Tail(agentset))

\* Row-major enumeration order of empty_spots.
CellAt(i) == <<(i - 1) \div COLS, (i - 1) % COLS>>
IsEmpty(w, c) == w[c] = 0
empty_spots(w) ==
    LET all == [i \in 1..(ROWS * COLS) |-> CellAt(i)]
        Test(c) == IsEmpty(w, c)
    IN SelectSeq(all, Test)

\* Line 119 with a threshold of 1.4, squared on both sides.
Near_short(p, q) ==
    LET dx == p[1] - q[1]
        dy == p[2] - q[2]
    IN 25 * (dx * dx + dy * dy) < 49

\* math.dist(p, q) < 1.5, squared on both sides.
Near(p, q) ==
    LET dx == p[1] - q[1]
        dy == p[2] - q[2]
    IN 4 * (dx * dx + dy * dy) < 9

\* list.remove(x): drop the first occurrence of x.
RECURSIVE Remove(_, _)
Remove(s, x) ==
    IF s = <<>> THEN <<>>
    ELSE IF Head(s) = x THEN Tail(s)
    ELSE <<Head(s)>> \o Remove(Tail(s), x)

Range(s) == {s[i] : i \in DOMAIN s}

\* ------------------------------------------------------------------ Init
\* The state in which simulate calls setup (lines 149-157), for a
\* population from pops, an initial prosocial fraction from fracs and a
\* tick budget from budgets.
InitWith(pops, fracs, budgets) ==
    /\ pc = "setup"
    /\ population \in pops
    /\ initial_prosocial_fraction \in fracs
    /\ tick_max \in budgets
    /\ world = [c \in Cells |-> 0]
    /\ agents = <<>>
    /\ spot = <<>>
    /\ tick = 0
    /\ time = <<>>
    /\ prosocial_fraction = <<>>
    /\ agents_moving = <<>>
    /\ agents_switching = <<>>
    /\ unsatisfied = 0
    /\ available_spots = <<>>
    /\ moving_idx = 0

Init == InitWith(Populations, Fractions, {TICK_MAX})

\* ----------------------------------------------------------------- setup
\* One iteration of the for loop of setup whose draw hits a free cell.
SetupPlace ==
    /\ pc = "setup"
    /\ Len(agents) < population
    /\ \E s \in SetupCells :
          /\ world[s] = 0
          /\ spot' = s
          /\ world' = [world EXCEPT ![s] = Len(agents) + 1]
          /\ agents' = Append(agents, Agent(Len(agents) + 1, s, 0))
    /\ UNCHANGED <<pc, population, initial_prosocial_fraction, tick_max,
                   tick, series, locals>>

\* The while loop of setup: the draw hit an occupied cell and is repeated.
SetupResample ==
    /\ pc = "setup"
    /\ Len(agents) < population
    /\ \E s \in SetupCells :
          /\ world[s] # 0
          /\ spot' = s
    /\ UNCHANGED <<pc, population, initial_prosocial_fraction, tick_max,
                   world, agents, tick, series, locals>>

\* Lines 108-109 with the slice one agent too long.
PaintProsocial_onemore(ags, initialprosocial) ==
    [i \in DOMAIN ags |->
        IF i <= initialprosocial + 1
        THEN [ags[i] EXCEPT !.policy = 1]
        ELSE ags[i]]

\* Lines 108-109: the agents of the slice agents[:initialprosocial] get policy 1.
PaintProsocial(ags, initialprosocial) ==
    [i \in DOMAIN ags |->
        IF i <= initialprosocial
        THEN [ags[i] EXCEPT !.policy = 1]
        ELSE ags[i]]

\* The end of setup: the first int(population * fraction) agents turn
\* prosocial, and setup returns (its local spot is gone).
SetupProsocial ==
    /\ pc = "setup"
    /\ Len(agents) = population
    /\ LET initialprosocial ==
               (population * initial_prosocial_fraction.num)
                   \div initial_prosocial_fraction.den
       IN agents' = PaintProsocial(agents, initialprosocial)
    /\ spot' = <<>>
    /\ pc' = "log0"
    /\ UNCHANGED <<population, initial_prosocial_fraction, tick_max, world,
                   tick, series, locals>>

\* A division that never raises.
DivisionFails_never(n) == FALSE

\* Line 162: count_agents(1, agents) / population raises ZeroDivisionError
\* when the divisor is 0.
DivisionFails(n) == n = 0

\* Tick-0 book keeping (lines 160-162); the run ends with the error when
\* the division fails.
LogInitial ==
    /\ pc = "log0"
    /\ IF DivisionFails(population)
       THEN /\ pc' = "error"
            /\ time' = Append(time, tick)
            /\ UNCHANGED prosocial_fraction
       ELSE /\ pc' = "groups"
            /\ time' = Append(time, tick)
            /\ prosocial_fraction' =
                   Append(prosocial_fraction, Rat(count_agents(1, agents), population))
    /\ UNCHANGED <<config, world, agents, tick, locals>>

\* --------------------------------------------------------- update_groups
\* The nested loops of update_groups from pair (p, n) on; pagent = ags[p]
\* and nagent runs over the slice agents[pagent.id:population].
\* Lines 120-121 with the append to nagent's group left out.
Join_oneway(ags, p, n) ==
    [ags EXCEPT ![p].group = Append(@, ags[n].id)]

\* Lines 120-121: each of the two agents is appended to the other's group.
Join(ags, p, n) ==
    [ags EXCEPT ![p].group = Append(@, ags[n].id),
                ![n].group = Append(@, ags[p].id)]

RECURSIVE GroupLoop(_, _, _)
GroupLoop(ags, p, n) ==
    IF p > Len(ags) THEN ags
    ELSE IF n > Len(ags)
         THEN IF p + 1 > Len(ags) THEN ags
              ELSE GroupLoop(ags, p + 1, ags[p + 1].id + 1)
         ELSE LET joined ==
                      IF Near(ags[p].loc, ags[n].loc)
                      THEN Join(ags, p, n)
                      ELSE ags
              IN GroupLoop(joined, p, n + 1)

\* update_groups that leaves a group list alone once it is filled.
update_groups_keep(ags) ==
    LET reset == [i \in DOMAIN ags |-> [ags[i] EXCEPT !.group = <<ags[i].id>>]]
    IN IF ags = <<>> THEN ags
       ELSE IF ags[1].group # <<>> THEN ags
       ELSE GroupLoop(reset, 1, reset[1].id + 1)

\* update_groups: every group is reset to the agent itself (lines 115-116),
\* then the pairs are visited (lines 117-121).
update_groups(ags) ==
    LET reset == [i \in DOMAIN ags |-> [ags[i] EXCEPT !.group = <<ags[i].id>>]]
    IN IF reset = <<>> THEN reset ELSE GroupLoop(reset, 1, reset[1].id + 1)

\* ------------------------------------------------------------- tick loop
\* tick += 1 and update_groups (lines 165-168).
UpdateGroups ==
    /\ pc = "groups"
    /\ tick' = tick + 1
    /\ agents' = update_groups(agents)
    /\ pc' = "score"
    /\ UNCHANGED <<config, world, series, locals>>

\* The scoring loop (lines 171-172).
UpdateScores ==
    /\ pc = "score"
    /\ agents' = [i \in DOMAIN agents |->
                     [agents[i] EXCEPT !.score = update_score(agents, i)]]
    /\ pc' = "decide"
    /\ UNCHANGED <<config, world, tick, series, locals>>

\* The decision loop without the test of line 179.
Unsatisfied_untested(ags) == DOMAIN ags

\* Line 179: the agents whose score is below PRESSURE.
Unsatisfied(ags) == {i \in DOMAIN ags : RatLess(ags[i].score, PRESSURE)}

\* Line 187 letting one unsatisfied agent pass.
AllSatisfied_butone(count) == count <= 1

\* Line 187: the loop ends when no agent is unsatisfied.
AllSatisfied(count) == count = 0

\* The agents of set S in the order the decision loop appends them.
InOrder(ags, S) ==
    LET ids == [i \in DOMAIN ags |-> ags[i].id]
        Test(i) == i \in S
    IN SelectSeq(ids, Test)

\* Lines 193-195 with the list of open spots left out.
BuildAvailable_moversonly(w, ags, moving) ==
    [k \in DOMAIN moving |-> ags[moving[k]].loc]

\* Lines 193-195: the open spots, then the spot of every agent that moves.
BuildAvailable(w, ags, moving) ==
    empty_spots(w) \o [k \in DOMAIN moving |-> ags[moving[k]].loc]

\* The decision loop (lines 175-184) and the convergence test (187-188);
\* wants_to_change_group / wants_to_change_policy are the subsets chosen.
\* When the loop goes on, the candidate list is built (lines 193-195).
Decide ==
    /\ pc = "decide"
    /\ \E movers \in SUBSET Unsatisfied(agents) :
       \E switchers \in SUBSET Unsatisfied(agents) :
          /\ agents_moving' = InOrder(agents, movers)
          /\ agents_switching' = InOrder(agents, switchers)
          /\ unsatisfied' = Cardinality(Unsatisfied(agents))
          /\ IF AllSatisfied(unsatisfied')
             THEN /\ pc' = "Converged"
                  /\ UNCHANGED <<available_spots, moving_idx>>
             ELSE /\ pc' = "relocate"
                  /\ available_spots' = BuildAvailable(world, agents, agents_moving')
                  /\ moving_idx' = 1
    /\ UNCHANGED <<config, world, agents, tick, series>>

\* The move of lines 205-208 without line 205 (the old spot keeps its id).
Move_noclear(w, ags, avail, a, new_spot) ==
    LET w2 == [w EXCEPT ![new_spot] = ags[a].id]
    IN [world |-> w2,
        agents |-> [ags EXCEPT ![a].loc = new_spot],
        available_spots |-> Remove(avail, new_spot)]

\* One iteration of the relocation loop (lines 198-208) whose draw differs
\* from the agent's own spot.
Move(w, ags, avail, a, new_spot) ==
    LET old_spot == ags[a].loc
        w1 == [w EXCEPT ![old_spot] = 0]
        w2 == [w1 EXCEPT ![new_spot] = ags[a].id]
    IN [world |-> w2,
        agents |-> [ags EXCEPT ![a].loc = new_spot],
        available_spots |-> Remove(avail, new_spot)]

RelocateMove ==
    /\ pc = "relocate"
    /\ moving_idx <= Len(agents_moving)
    /\ \E k \in DOMAIN available_spots :
          LET a == agents_moving[moving_idx]
              new_spot == available_spots[k]
              r == Move(world, agents, available_spots, a, new_spot)
          IN /\ new_spot # agents[a].loc
             /\ world' = r.world
             /\ agents' = r.agents
             /\ available_spots' = r.available_spots
    /\ moving_idx' = moving_idx + 1
    /\ UNCHANGED <<pc, config, tick, series, agents_moving, agents_switching, unsatisfied>>

\* The while loop of lines 201-202: the draw was the agent's own spot.
RelocateResample ==
    /\ pc = "relocate"
    /\ moving_idx <= Len(agents_moving)
    /\ \E k \in DOMAIN available_spots :
          available_spots[k] = agents[agents_moving[moving_idx]].loc
    /\ UNCHANGED vars

\* Line 220 one tick late.
OutOfTime_late(t) == t > tick_max + 1

\* Line 220: the run is out of time.
OutOfTime(t) == t > tick_max

\* The policy loop (lines 211-212).
SwitchPolicies(ags, switching) ==
    [i \in DOMAIN ags |->
        IF i \in Range(switching)
        THEN [ags[i] EXCEPT !.policy = change_policy(@)]
        ELSE ags[i]]

\* The relocation loop is over: the policy loop, the end-of-tick book
\* keeping and the time-out test (lines 211-221).  The locals of the loop
\* body are dead here (lines 175-177 and 193 assign them anew before any
\* read), so they are cleared rather than carried along.
EndOfTick ==
    /\ pc = "relocate"
    /\ moving_idx > Len(agents_moving)
    /\ agents' = SwitchPolicies(agents, agents_switching)
    /\ time' = Append(time, tick)
    /\ prosocial_fraction' =
           Append(prosocial_fraction, Rat(count_agents(1, agents'), population))
    /\ pc' = IF OutOfTime(tick) THEN "TimedOut" ELSE "groups"
    /\ agents_moving' = <<>>
    /\ agents_switching' = <<>>
    /\ unsatisfied' = 0
    /\ available_spots' = <<>>
    /\ moving_idx' = 0
    /\ UNCHANGED <<config, world, tick>>

Next ==
    \/ SetupPlace
    \/ SetupResample
    \/ SetupProsocial
    \/ LogInitial
    \/ UpdateGroups
    \/ UpdateScores
    \/ Decide
    \/ RelocateMove
    \/ RelocateResample
    \/ EndOfTick

Spec == Init /\ [][Next]_vars

\* The program runs on, and a resample loop whose exit draw is possible
\* again and again takes it (fair random draws): the runs of Spec with a
\* budget one less, under this fairness.
Fairness == WF_vars(Next) /\ SF_vars(SetupPlace) /\ SF_vars(RelocateMove)
InitFair == InitWith(Populations, Fractions, {TICK_MAX - 1})
FairSpec == InitFair /\ [][Next]_vars /\ Fairness

\* A run with MaxPop + 1 agents, none prosocial at the start.
InitCrowd == InitWith({MaxPop + 1}, {Rat(1, 10)}, {TICK_MAX - 1})
SpecCrowd == InitCrowd /\ [][Next]_vars

\* ---------------------------------------------------------------- claims
\* After setup and after each completed tick; the loop has also stopped.
TickBoundary == pc \in {"groups", "Converged", "TimedOut"}

Occupied(w) == {c \in Cells : w[c] # 0}

\* C1: at every tick boundary the World cell at each agent's recorded
\* location holds that agent's id, and the number of non-empty World cells
\* equals the number of agents.
C1_WorldAgentBijection ==
    TickBoundary =>
        /\ \A i \in DOMAIN agents : world[agents[i].loc] = agents[i].id
        /\ Cardinality(Occupied(world)) = population

\* C2: at every tick boundary no two distinct agents have the same
\* recorded location.
C2_DistinctLocations ==
    TickBoundary =>
        \A i, j \in DOMAIN agents : i # j => agents[i].loc # agents[j].loc

\* C3: in a relocation pass every relocating agent's destination differs
\* from the cell it occupied at the start of the pass and from the
\* destination of every agent relocated earlier in the pass (whose current
\* location is that destination).
C3_RelocationExclusive ==
    [][(pc = "relocate" /\ moving_idx' = moving_idx + 1) =>
          LET a == agents_moving[moving_idx]
          IN /\ agents'[a].loc # agents[a].loc
             /\ \A j \in 1..(moving_idx - 1) :
                   agents'[a].loc # agents[agents_moving[j]].loc]_vars

\* C4: setup ends, with all agents placed, for every population that does
\* not exceed the cell count ROWS * COLS.
C4_SetupTerminates ==
    (population <= ROWS * COLS) ~> (pc # "setup" /\ Len(agents) = population)

Halted == pc \in {"Converged", "TimedOut"}

\* C5: once the tick loop is entered it halts, in Converged with no
\* unsatisfied agent or in TimedOut after tick tick_max + 1, and the tick
\* counter never exceeds tick_max + 1.
C5_TickLoopHalts ==
    /\ (pc = "groups") ~> Halted
    /\ [](tick <= tick_max + 1)
    /\ [](pc = "Converged" => Unsatisfied(agents) = {})
    /\ [](pc = "TimedOut" => tick = tick_max + 1)

C5_Witness ==
    /\ pc = "TimedOut"
    /\ tick = tick_max + 1
    /\ \E i \in DOMAIN agents : agents[i].loc \notin SetupCells

Locs(ags) == [i \in DOMAIN ags |-> ags[i].loc]
Policies(ags) == [i \in DOMAIN ags |-> ags[i].policy]

\* C6: the steps of a tick up to the convergence test change no location,
\* no policy, no World cell and no record; the loop stops only from the
\* decision step of a tick with no unsatisfied agent, and then the series
\* has one record per earlier tick, the last is that of the previous tick,
\* and in the first tick the series is [(0, f0)].
C6_IdempotentConvergence ==
    [][/\ (pc \in {"groups", "score", "decide"}
              /\ pc' \in {"score", "decide", "Converged"}) =>
             /\ Locs(agents') = Locs(agents)
             /\ Policies(agents') = Policies(agents)
             /\ world' = world
             /\ time' = time
             /\ prosocial_fraction' = prosocial_fraction
       /\ (pc' = "Converged" /\ pc # "Converged") =>
             /\ pc = "decide"
             /\ Unsatisfied(agents) = {}
             /\ Len(time') = tick'
             /\ time'[Len(time')] = tick' - 1
             /\ Len(prosocial_fraction') = tick'
             /\ tick' = 1 =>
                   /\ time' = <<0>>
                   /\ \A r \in Range(prosocial_fraction') :
                         RatEq(r, Rat(Cardinality({i \in DOMAIN agents :
                                                      agents[i].policy = 1}),
                                      population))]_vars

C6_Witness == pc = "Converged" /\ tick = 2 /\ Len(time) = 2

\* C7: after update_groups, q is in p's group iff p is in q's group, and
\* every agent is in its own group.
C7_GroupSymmetry ==
    pc \in {"score", "decide"} =>
        \A p, q \in DOMAIN agents :
            /\ (q \in Range(agents[p].group)) <=> (p \in Range(agents[q].group))
            /\ p \in Range(agents[p].group)

C7_Witness ==
    /\ pc = "score"
    /\ \E p, q \in DOMAIN agents : p # q /\ q \in Range(agents[p].group)

\* C8: after update_score an agent whose group has size 1 has score 1, and
\* an agent whose group has size g > 1 has score
\* (1 - policy) + SYNERGY * k / g, k the number of group members with policy 1.
C8_Scoring ==
    pc = "decide" =>
        \A a \in DOMAIN agents :
            LET g == Len(agents[a].group)
                k == Cardinality({m \in Range(agents[a].group) :
                                     agents[m].policy = 1})
                sc == agents[a].score
            IN IF g = 1
               THEN sc.num = sc.den
               ELSE (sc.num - (1 - agents[a].policy) * sc.den) * g * SYNERGY.den
                        = SYNERGY.num * k * sc.den

C8_Witness ==
    /\ pc = "decide"
    /\ \E a, b \in DOMAIN agents :
          /\ Len(agents[a].group) = 3
          /\ b \in Range(agents[a].group)
          /\ agents[a].policy = 1
          /\ agents[b].policy = 0

\* C9: when setup returns there are exactly population agents with ids
\* 1..population in creation order, on pairwise distinct cells of the
\* lattice, the World holds each agent's id at its location and is empty
\* elsewhere, and the first floor(population * fraction) agents have policy
\* 1, all others policy 0.
C9_SetupPostcondition ==
    pc = "log0" =>
        LET k == Cardinality({i \in DOMAIN agents : agents[i].policy = 1})
            f == initial_prosocial_fraction
        IN /\ Len(agents) = population
           /\ \A i \in DOMAIN agents :
                 /\ agents[i].id = i
                 /\ agents[i].loc \in Cells
                 /\ world[agents[i].loc] = i
                 /\ agents[i].policy = (IF i <= k THEN 1 ELSE 0)
           /\ \A i, j \in DOMAIN agents : i # j => agents[i].loc # agents[j].loc
           /\ \A c \in Cells : c \notin Range(Locs(agents)) => world[c] = 0
           /\ k * f.den <= population * f.num
           /\ population * f.num < (k + 1) * f.den

C9_Witness ==
    /\ pc = "log0"
    /\ population = 2
    /\ agents[1].policy = 1
    /\ agents[2].policy = 0

Satisfied(ags) == {i \in DOMAIN ags : ~RatLess(ags[i].score, PRESSURE)}

\* C10: no step of a tick changes the location or the policy of an agent
\* whose score of that tick is >= PRESSURE, and only agents whose score is
\* < PRESSURE are marked for relocation or for a policy flip.
C10_SatisfiedStay ==
    [][/\ pc \in {"groups", "score"} =>
             /\ Locs(agents') = Locs(agents)
             /\ Policies(agents') = Policies(agents)
       /\ pc \in {"decide", "relocate"} =>
             \A i \in Satisfied(agents) :
                 /\ agents'[i].loc = agents[i].loc
                 /\ agents'[i].policy = agents[i].policy
       /\ pc = "decide" =>
             \A i \in Range(agents_moving') \cup Range(agents_switching') :
                 RatLess(agents[i].score, PRESSURE)]_vars

C10_Witness ==
    /\ pc = "relocate"
    /\ moving_idx > Len(agents_moving)
    /\ agents_moving # <<>>
    /\ agents_switching # <<>>
    /\ Satisfied(agents) # {}

\* C11: a configuration whose population exceeds the cell count ROWS * COLS
\* never has an agent created or a World cell written.
C11_FailFast ==
    population > ROWS * COLS => (agents = <<>> /\ Occupied(world) = {})

IsPrefix(s, t) == Len(s) <= Len(t) /\ \A k \in DOMAIN s : s[k] = t[k]

\* C12: the series only grows by appending; its k-th record (from 0) has
\* tick k, which never exceeds tick_max + 1; each fraction appended equals
\* (number of agents with policy 1 when it is logged) / population and lies
\* in [0, 1].
C12_SeriesShape ==
    /\ [](/\ \A k \in DOMAIN time : time[k] = k - 1 /\ time[k] <= tick_max + 1
          /\ pc # "error" => Len(prosocial_fraction) = Len(time)
          /\ \A k \in DOMAIN prosocial_fraction :
                /\ prosocial_fraction[k].den = population
                /\ 0 <= prosocial_fraction[k].num
                /\ prosocial_fraction[k].num <= prosocial_fraction[k].den)
    /\ [][/\ IsPrefix(time, time')
          /\ IsPrefix(prosocial_fraction, prosocial_fraction')
          /\ Len(time') <= Len(time) + 1
          /\ Len(prosocial_fraction') > Len(prosocial_fraction) =>
                prosocial_fraction'[Len(prosocial_fraction')].num
                    = Cardinality({i \in DOMAIN agents' : agents'[i].policy = 1})]_vars

C12_Witness ==
    /\ Len(time) = tick_max + 2
    /\ prosocial_fraction[1].num = 0
    /\ prosocial_fraction[2].num = 2
    /\ prosocial_fraction[3].num = 1

\* C13: while setup places an agent, every cell of the lattice that is
\* unoccupied can be the cell the agent is placed on.
C13_SetupDrawsAnyFreeCell ==
    (pc = "setup" /\ Len(agents) < population) =>
        \A c \in Cells :
            world[c] = 0 => ENABLED (SetupPlace /\ world'[c] = Len(agents) + 1)

Count(seq, x) == Cardinality({k \in DOMAIN seq : seq[k] = x})
Abs(n) == IF n < 0 THEN -n ELSE n
\* Row and column offsets both at most 1.
Adjacent(p, q) == Abs(p[1] - q[1]) <= 1 /\ Abs(p[2] - q[2]) <= 1

\* C14: after update_groups each agent's group starts with the agent
\* itself and holds, exactly once each, the agent and every other agent
\* whose row and column offsets are both at most 1, and nobody else; the
\* pair loop visits every unordered pair of distinct agents exactly once
\* (with all agents put on one cell, every agent is joined once to each other).
C14_GroupExact ==
    pc \in {"score", "decide"} =>
        /\ \A p \in DOMAIN agents :
              /\ agents[p].group[1] = p
              /\ Range(agents[p].group) \subseteq DOMAIN agents
              /\ \A q \in DOMAIN agents :
                    Count(agents[p].group, q) =
                        (IF p = q \/ Adjacent(agents[p].loc, agents[q].loc)
                         THEN 1 ELSE 0)
        /\ LET together == [i \in DOMAIN agents |->
                               [agents[i] EXCEPT !.loc = <<0, 0>>]]
               G == update_groups(together)
           IN \A p, q \in DOMAIN agents : Count(G[p].group, q) = 1

C14_Witness ==
    /\ pc = "score"
    /\ \E p, q, r \in DOMAIN agents :
          /\ Abs(agents[p].loc[1] - agents[q].loc[1]) = 1
          /\ Abs(agents[p].loc[2] - agents[q].loc[2]) = 1
          /\ q \in Range(agents[p].group)
          /\ r \notin Range(agents[p].group)

GroupsFresh(ags) ==
    \A p \in DOMAIN ags :
        Range(ags[p].group) =
            {q \in DOMAIN ags : Adjacent(ags[p].loc, ags[q].loc)}

ScoresFresh(ags) ==
    \A a \in DOMAIN ags :
        LET g == Cardinality({q \in DOMAIN ags : Adjacent(ags[a].loc, ags[q].loc)})
            k == Cardinality({q \in DOMAIN ags :
                                 /\ Adjacent(ags[a].loc, ags[q].loc)
                                 /\ ags[q].policy = 1})
            sc == ags[a].score
        IN IF g = 1
           THEN sc.num = sc.den
           ELSE (sc.num - (1 - ags[a].policy) * sc.den) * g * SYNERGY.den
                    = SYNERGY.num * k * sc.den

\* C15: groups change only in the grouping step, which leaves every group
\* fresh for the current locations; scores change only in the scoring step,
\* with every group fresh; decisions are drawn only in the decision step,
\* with every group and score fresh for the current locations and policies;
\* locations change only in relocation steps, after the decisions and
\* before any flip; policies change (after setup) only once every
\* relocation of the tick is done.
C15_PhaseOrder ==
    [][/\ (\E i \in DOMAIN agents : agents'[i].group # agents[i].group) =>
              /\ pc = "groups"
              /\ GroupsFresh(agents')
              /\ Locs(agents') = Locs(agents)
       /\ (\E i \in DOMAIN agents : agents'[i].score # agents[i].score) =>
              /\ pc = "score"
              /\ GroupsFresh(agents)
              /\ ScoresFresh(agents')
       /\ (agents_moving' # agents_moving \/ agents_switching' # agents_switching) =>
              \/ /\ pc = "decide"
                 /\ GroupsFresh(agents)
                 /\ ScoresFresh(agents)
                 /\ agents' = agents
              \/ /\ pc = "relocate"
                 /\ moving_idx > Len(agents_moving)
       /\ (\E i \in DOMAIN agents : agents'[i].loc # agents[i].loc) =>
              /\ pc = "relocate"
              /\ moving_idx <= Len(agents_moving)
              /\ agents_moving' = agents_moving
              /\ agents_switching' = agents_switching
              /\ Policies(agents') = Policies(agents)
       /\ (\E i \in DOMAIN agents : agents'[i].policy # agents[i].policy) =>
              \/ pc = "setup"
              \/ /\ pc = "relocate"
                 /\ moving_idx > Len(agents_moving)
                 /\ Locs(agents') = Locs(agents)]_vars

C15_Witness ==
    /\ pc = "decide"
    /\ tick = 2
    /\ initial_prosocial_fraction = Rat(1, 10)
    /\ \E i \in DOMAIN agents : agents[i].loc \notin SetupCells
    /\ \E i \in DOMAIN agents : agents[i].policy = 1

\* C16: whenever a relocating agent is about to draw a destination the
\* candidate list holds a cell other than the agent's current cell.
C16_NoRelocationDeadlock ==
    (pc = "relocate" /\ moving_idx <= Len(agents_moving)) =>
        \E k \in DOMAIN available_spots :
            available_spots[k] # agents[agents_moving[moving_idx]].loc

C16_Witness ==
    /\ pc = "relocate"
    /\ Len(agents_moving) >= 2
    /\ moving_idx = Len(agents_moving)
    /\ Count(available_spots, agents[agents_moving[moving_idx]].loc) >= 1

\* C17: at the start of a relocation pass the candidate list holds, once
\* each, exactly the cells on which no agent stands and the cells of the
\* agents marked for relocation; during the pass the list never holds the
\* cell an agent was assigned earlier in the pass.
C17_CandidateSet ==
    pc = "relocate" =>
        /\ moving_idx = 1 =>
              /\ \A j, k \in DOMAIN available_spots :
                    available_spots[j] = available_spots[k] => j = k
              /\ Range(available_spots) =
                    {c \in Cells : \A i \in DOMAIN agents : agents[i].loc # c}
                        \cup {agents[agents_moving[k]].loc : k \in DOMAIN agents_moving}
        /\ \A j \in DOMAIN agents_moving :
              j < moving_idx =>
                  agents[agents_moving[j]].loc \notin Range(available_spots)

\* C18: the policy loop flips the policy of each agent marked for a flip
\* to the other binary value and leaves every other agent's policy alone;
\* no agent is marked twice; no other step of a tick changes a policy;
\* every policy is 0 or 1 in every reachable state.
C18_PolicyUpdate ==
    /\ [](/\ \A i \in DOMAIN agents : agents[i].policy \in {0, 1}
          /\ \A i \in DOMAIN agents : Count(agents_switching, i) <= 1)
    /\ [][/\ (pc = "relocate" /\ moving_idx > Len(agents_moving)) =>
                \A i \in DOMAIN agents :
                    agents'[i].policy =
                        (IF i \in Range(agents_switching)
                         THEN 1 - agents[i].policy
                         ELSE agents[i].policy)
          /\ (pc \notin {"setup", "relocate"} \/ moving_idx <= Len(agents_moving)) =>
                (pc # "setup" => Policies(agents') = Policies(agents))]_vars

C18_Witness ==
    /\ pc = "groups"
    /\ tick = 1
    /\ population = 2
    /\ initial_prosocial_fraction = Rat(1, 2)
    /\ agents[1].policy = 0
    /\ agents[2].policy = 1

NoAgentAt(c) == \A i \in DOMAIN agents : agents[i].loc # c

\* C19: every non-empty World cell holds the id of an agent whose recorded
\* location is that cell; so a cell on which no agent stands reads 0 and,
\* throughout a relocation pass, is in the candidate list.
C19_NoGhost ==
    /\ \A c \in Cells :
          world[c] # 0 =>
              /\ world[c] \in DOMAIN agents
              /\ agents[world[c]].loc = c
    /\ \A c \in Cells : NoAgentAt(c) => world[c] = 0
    /\ pc = "relocate" =>
          \A c \in Cells : NoAgentAt(c) => c \in Range(available_spots)

C19_Witness ==
    /\ pc = "relocate"
    /\ tick = 1
    /\ Len(agents_moving) = 2
    /\ moving_idx = 2
    /\ agents[agents_moving[1]].loc \notin SetupCells
    /\ \E c \in SetupCells : NoAgentAt(c) /\ world[c] = 0

\* C20: with population 0 no agent is ever placed, no tick runs and no
\* fraction is logged; the run ends in the error state, which nothing
\* leaves; only population 0 reaches the error state; for population
\* N >= 1 the tick-0 record is logged before the first tick begins.
C20_EmptyPopulation ==
    /\ [](population = 0 =>
              /\ agents = <<>>
              /\ Occupied(world) = {}
              /\ tick = 0
              /\ prosocial_fraction = <<>>
              /\ pc \in {"setup", "log0", "error"})
    /\ [](pc = "error" => population = 0)
    /\ [][pc # "error"]_vars
    /\ (population = 0) ~> (pc = "error")
    /\ []((population >= 1 /\ (tick >= 1 \/ pc \notin {"setup", "log0"})) =>
              /\ Len(time) >= 1
              /\ time[1] = 0
              /\ Len(prosocial_fraction) >= 1
              /\ prosocial_fraction[1].den = population)

C20_Witness ==
    /\ pc = "error"
    /\ population = 0
    /\ time = <<0>>
====
